---- MODULE Spec2Model ----
(***************************************************************************)
(* Sismotower: state machine of the App component (session state, phase    *)
(* machine, delayed wave resolution, repair, reset) together with the      *)
(* structural-bonus and wave-damage computations, and the volume, mute     *)
(* and music state of sounds.ts.                                           *)
(*                                                                         *)
(* Numbers that the program keeps as floating point (health, cost, bonus,  *)
(* disaster power) are exact rationals <<numerator, denominator>> with a   *)
(* positive denominator, in lowest terms.                                  *)
(*                                                                         *)
(* React state updates issued by one event handler or one timer callback   *)
(* are committed together (automatic batching), and the wave-dispatching   *)
(* effect runs on that commit before the next event is processed; each     *)
(* action below therefore contains the handler, the commit and the effect. *)
(***************************************************************************)
EXTENDS Integers, Sequences, FiniteSets, TLC

VARIABLES
    gameState,        \* 'splash' | 'options' | 'playing'
    buildingState,    \* component -> sequence of material ids
    componentHealth,  \* component -> sequence of health values (rationals)
    phase,            \* simulationState.phase
    activeDisaster,   \* simulationState.activeDisaster (NULL when none)
    resultMessage,    \* simulationState.resultMessage (NoResult when null)
    totalCost,        \* rational
    timers,           \* pending setTimeout callbacks of runSimulationWave, oldest first
    cat,              \* index of the configuration catalog in use
    ops,              \* number of material changes, simulation starts, repairs and resets so far
    lastWave,         \* arguments and result of the last direct resolver application
    sound             \* the module-level variables of sounds.ts

vars == <<gameState, buildingState, componentHealth, phase, activeDisaster,
          resultMessage, totalCost, timers, cat, ops, lastWave, sound>>

NULL == "null"

\* resultMessage: null, written as a message without tier
NoResult == [tier |-> NULL, finalHealth |-> 0]

(***************************************************************************)
(* Bounds of the model.                                                    *)
(***************************************************************************)
MaxOps == 3             \* material changes, simulation starts, repairs and resets in one behaviour
MaxTimers == 2          \* wave callbacks pending at the same time
MaxWaveFloors == 5      \* largest floor count given to the resolver directly
MaxWaves == 2           \* resolver applications chained on one health map
MaxResultFloors == 3    \* largest floor count given to the result classification
MaxBonusFloors == 2     \* largest floor count given to the bonus calculator
MaxSteps == 2           \* notes of the music loop scheduled before it is stopped

(***************************************************************************)
(* Exact rational arithmetic.                                              *)
(***************************************************************************)
gcd[a \in Nat, b \in Nat] == IF b = 0 THEN a ELSE gcd[b, a % b]

GCD(a, b) == gcd[a, b]

Abs(x) == IF x < 0 THEN -x ELSE x

Norm(n, d) ==
    IF d = 1 THEN <<n, 1>>
    ELSE LET g == GCD(Abs(n), d) IN <<n \div g, d \div g>>

R(n) == <<n, 1>>

RSub(a, b) ==
    IF a[2] = b[2] THEN Norm(a[1] - b[1], a[2])
    ELSE LET g == GCD(a[2], b[2])
         IN  Norm(a[1] * (b[2] \div g) - b[1] * (a[2] \div g), (a[2] \div g) * b[2])

RAdd(a, b) == RSub(a, <<-b[1], b[2]>>)

RMul(a, b) ==
    IF a[1] = 0 \/ b[1] = 0 THEN <<0, 1>>
    ELSE IF a[2] = 1 /\ b[2] = 1 THEN <<a[1] * b[1], 1>>
    ELSE LET g1 == GCD(Abs(a[1]), b[2])
             g2 == GCD(Abs(b[1]), a[2])
         IN  <<(a[1] \div g1) * (b[1] \div g2), (a[2] \div g2) * (b[2] \div g1)>>

\* a / b for b > 0
RDiv(a, b) == RMul(a, <<b[2], b[1]>>)

RLeq(a, b) ==
    IF a[2] = b[2] THEN a[1] <= b[1]
    ELSE LET g == GCD(a[2], b[2]) IN a[1] * (b[2] \div g) <= b[1] * (a[2] \div g)

RLt(a, b) == ~RLeq(b, a)

RMax(a, b) == IF RLeq(a, b) THEN b ELSE a
RMin(a, b) == IF RLeq(a, b) THEN a ELSE b

\* Number.prototype.toFixed(0) of a non-negative value: nearest integer, ties upward
toFixed0(a) == (2 * a[1] + a[2]) \div (2 * a[2])

(***************************************************************************)
(* types.ts: identifiers.                                                  *)
(***************************************************************************)
Pillars == "pillars"
Beams == "beams"
Walls == "walls"
Glass == "glass"
Floor == "floor"
Roof == "roof"
LightningRod == "lightningRod"
WindDampers == "windDampers"
TsunamiBarriers == "tsunamiBarriers"
SeismicDampers == "seismicDampers"

floorComponents == {Pillars, Beams, Walls, Glass, Floor}
roofComponents == {Roof}
defenseComponents == {LightningRod, WindDampers, TsunamiBarriers, SeismicDampers}
BuildingComponentId == floorComponents \cup roofComponents \cup defenseComponents

MaterialTypeId == {"weak", "medium", "strong"}

LightningStorm == "lightningStorm"
Hurricane == "hurricane"
Tsunami == "tsunami"
Earthquake == "earthquake"
DisasterId == {LightningStorm, Hurricane, Tsunami, Earthquake}

WavePhases == {"wave_1", "wave_2", "wave_3"}
RepairPhases == {"repair_1", "repair_2", "repair_3"}
SimulationPhase == {"idle", "results"} \cup WavePhases \cup RepairPhases

(***************************************************************************)
(* constants.ts: the configuration catalog.  Catalogs[1] is the catalog of *)
(* the game session; the others are further catalogs on which the          *)
(* resolver is applied directly.                                           *)
(***************************************************************************)
StructuralMaterials ==
    [weak   |-> [cost |-> 100, resistance |-> 10],
     medium |-> [cost |-> 200, resistance |-> 30],
     strong |-> [cost |-> 400, resistance |-> 60]]

DefenseMaterials ==
    [weak   |-> [cost |-> 0,   resistance |-> 20],
     medium |-> [cost |-> 300, resistance |-> 60],
     strong |-> [cost |-> 500, resistance |-> 90]]

GameComponents ==
    [c \in BuildingComponentId |->
        IF c \in defenseComponents THEN DefenseMaterials ELSE StructuralMaterials]

GamePower ==
    [d \in DisasterId |->
        CASE d = LightningStorm -> 100
          [] d = Hurricane -> 100
          [] d = Tsunami -> 110
          [] d = Earthquake -> 90]

Catalogs ==
    << [power |-> GamePower, components |-> GameComponents],
       [power |-> [d \in DisasterId |-> 0], components |-> GameComponents] >>

COMPONENT_CONFIG == Catalogs[cat].components
DISASTER_CONFIG == Catalogs[cat].power

MIN_STRUCTURAL_RESISTANCE == 10
MAX_STRUCTURAL_RESISTANCE == 50
MAX_STRUCTURAL_BONUS == <<2, 5>>

NUMBER_OF_FLOORS == 2

InitialBuilding(n) ==
    [c \in BuildingComponentId |->
        IF c \in floorComponents THEN [i \in 1..n |-> "weak"] ELSE <<"weak">>]

InitialHealth(n) ==
    [c \in BuildingComponentId |->
        IF c \in floorComponents THEN [i \in 1..n |-> R(100)] ELSE <<R(100)>>]

INITIAL_BUILDING_STATE == InitialBuilding(NUMBER_OF_FLOORS)
INITIAL_HEALTH_STATE == InitialHealth(NUMBER_OF_FLOORS)

ComponentOrder ==
    <<Pillars, Beams, Walls, Glass, Floor, Roof,
      LightningRod, WindDampers, TsunamiBarriers, SeismicDampers>>

RECURSIVE SumSeq(_)
SumSeq(s) == IF s = <<>> THEN 0 ELSE Head(s) + SumSeq(Tail(s))

\* sum of s[lo..hi], by halves
RECURSIVE RSumRange(_, _, _)
RSumRange(s, lo, hi) ==
    IF lo > hi THEN R(0)
    ELSE IF lo = hi THEN s[lo]
    ELSE LET mid == (lo + hi) \div 2
             left == RSumRange(s, lo, mid)
             right == RSumRange(s, mid + 1, hi)
         IN  RAdd(left, right)

RSumSeq(s) == RSumRange(s, 1, Len(s))

\* Object.values(h).flat()
Flat(h) ==
    h[Pillars] \o h[Beams] \o h[Walls] \o h[Glass] \o h[Floor] \o h[Roof]
        \o h[LightningRod] \o h[WindDampers] \o h[TsunamiBarriers] \o h[SeismicDampers]

Resistance(c, m) == COMPONENT_CONFIG[c][m].resistance
Cost(c, m) == COMPONENT_CONFIG[c][m].cost

(***************************************************************************)
(* calculateInitialCost                                                    *)
(***************************************************************************)
calculateInitialCost ==
    SumSeq([k \in 1..Len(ComponentOrder) |->
        SumSeq([i \in DOMAIN INITIAL_BUILDING_STATE[ComponentOrder[k]] |->
            Cost(ComponentOrder[k], INITIAL_BUILDING_STATE[ComponentOrder[k]][i])])])

(***************************************************************************)
(* structuralBonus (useMemo over buildingState)                            *)
(***************************************************************************)
structuralComponents == <<Pillars, Beams, Floor>>

totalResistance(bs) ==
    SumSeq([k \in 1..Len(structuralComponents) |->
        SumSeq([i \in DOMAIN bs[structuralComponents[k]] |->
            Resistance(structuralComponents[k], bs[structuralComponents[k]][i])])])

componentCount(bs) ==
    SumSeq([k \in 1..Len(structuralComponents) |-> Len(bs[structuralComponents[k]])])

\* bonusOf without the cap at MAX_STRUCTURAL_RESISTANCE
bonusOfNoCap(total, count) ==
    IF count = 0 THEN R(0)
    ELSE LET avgResistance == Norm(total, count)
         IN  IF RLeq(avgResistance, R(MIN_STRUCTURAL_RESISTANCE)) THEN R(0)
             ELSE RMul(RDiv(RSub(avgResistance, R(MIN_STRUCTURAL_RESISTANCE)),
                            R(MAX_STRUCTURAL_RESISTANCE - MIN_STRUCTURAL_RESISTANCE)),
                       MAX_STRUCTURAL_BONUS)

\* the bonus as a function of the two accumulators of the scan
bonusOf(total, count) ==
    IF count = 0 THEN R(0)
    ELSE LET avgResistance == Norm(total, count)
         IN  IF RLeq(avgResistance, R(MIN_STRUCTURAL_RESISTANCE)) THEN R(0)
             ELSE IF RLeq(R(MAX_STRUCTURAL_RESISTANCE), avgResistance) THEN MAX_STRUCTURAL_BONUS
             ELSE RMul(RDiv(RSub(avgResistance, R(MIN_STRUCTURAL_RESISTANCE)),
                            R(MAX_STRUCTURAL_RESISTANCE - MIN_STRUCTURAL_RESISTANCE)),
                       MAX_STRUCTURAL_BONUS)

structuralBonus(bs) == bonusOf(totalResistance(bs), componentCount(bs))

(***************************************************************************)
(* runSimulationWave: intensity, and the damage computed by the callback   *)
(***************************************************************************)
waveIntensities == << <<3, 5>>, <<4, 5>>, <<1, 1>> >>

disasterPowerOf(disasterId, waveNumber) ==
    RMul(R(DISASTER_CONFIG[disasterId]), waveIntensities[waveNumber])

\* JSONClone taking the initial health instead of the health it is given
JSONCloneOfInitial(h) == [c \in DOMAIN h |-> [i \in DOMAIN h[c] |-> R(100)]]

JSONClone(h) == [c \in DOMAIN h |-> [i \in DOMAIN h[c] |-> h[c][i]]]

\* Damaged without the floor at 0
DamagedNoFloor(h, damage) == RSub(h, damage)

Damaged(h, damage) == RMax(R(0), RSub(h, damage))

lightningDivisor(c) ==
    CASE c = Beams -> <<5, 4>>
      [] c = Walls -> <<3, 2>>
      [] c = Glass -> <<2, 1>>
      [] c = Pillars -> <<6, 5>>
      [] c = Floor -> <<9, 5>>

\* rodDamage reduced by the structural bonus
rodDamageWithBonus(disasterPower, spdaResistance, bonus) ==
    RMul(RMul(RSub(disasterPower, spdaResistance), R(2)), RSub(R(1), bonus))

\* (disasterPower - spdaResistance) * 2; the bonus is not used
rodDamage(disasterPower, spdaResistance, bonus) ==
    RMul(RSub(disasterPower, spdaResistance), R(2))

\* struckOffsets of a loop over four levels
struckOffsetsFour == 0..3

\* for (let i = 0; i < 3; i++): the offsets from the top floor
struckOffsets == 0..2

\* the body of `if (spdaResistance < disasterPower)`
lightningDamage(disasterPower, bs, newHealth, bonus) ==
    LET spdaMaterial == bs[LightningRod][1]
        spdaResistance == R(Resistance(LightningRod, spdaMaterial))
        effectivePower == RMax(R(0), RSub(disasterPower, spdaResistance))
        len == Len(newHealth[Beams])
        \* offset i from the top; floorIndex = len - 1 - i, 0-based
        finalDamage(i) ==
            RMul(RMul(effectivePower, <<2, 3 * i + 2>>), RSub(R(1), bonus))
    IN  [c \in DOMAIN newHealth |->
            CASE c = LightningRod ->
                    [newHealth[c] EXCEPT ![1] =
                        Damaged(@, rodDamage(disasterPower, spdaResistance, bonus))]
              [] c = Roof ->
                    [newHealth[c] EXCEPT ![1] =
                        Damaged(@, RMul(RMul(effectivePower, <<6, 5>>), RSub(R(1), bonus)))]
              [] c \in floorComponents ->
                    [k \in DOMAIN newHealth[c] |->
                        IF len - k \in struckOffsets
                        THEN Damaged(newHealth[c][k],
                                     RDiv(finalDamage(len - k), lightningDivisor(c)))
                        ELSE newHealth[c][k]]
              [] OTHER -> newHealth[c]]

\* lightningHealth entering the damage path whatever the rod resists
lightningHealthNoGuard(disasterPower, bs, newHealth, bonus) ==
    lightningDamage(disasterPower, bs, newHealth, bonus)

lightningHealth(disasterPower, bs, newHealth, bonus) ==
    LET spdaMaterial == bs[LightningRod][1]
        spdaResistance == R(Resistance(LightningRod, spdaMaterial))
    IN  IF RLt(spdaResistance, disasterPower)
        THEN lightningDamage(disasterPower, bs, newHealth, bonus)
        ELSE newHealth

\* defenseOf reading the seismic dampers for a hurricane
defenseOfSeismic(disasterId) ==
    CASE disasterId = Hurricane -> SeismicDampers
      [] disasterId = Tsunami -> TsunamiBarriers
      [] disasterId = Earthquake -> SeismicDampers

defenseOf(disasterId) ==
    CASE disasterId = Hurricane -> WindDampers
      [] disasterId = Tsunami -> TsunamiBarriers
      [] disasterId = Earthquake -> SeismicDampers

\* positionalMultiplier with the operands of the earthquake subtraction exchanged
positionalMultiplierExchanged(disasterId, index, length) ==
    CASE disasterId = Tsunami -> RMax(R(0), RSub(<<3, 2>>, Norm(index, length)))
      [] disasterId = Earthquake -> RSub(Norm(index, length * 2), <<6, 5>>)
      [] OTHER -> R(1)

\* positionalMultiplier dividing the earthquake index by the length, not twice the length
positionalMultiplierUndoubled(disasterId, index, length) ==
    CASE disasterId = Tsunami -> RMax(R(0), RSub(<<3, 2>>, Norm(index, length)))
      [] disasterId = Earthquake -> RSub(<<6, 5>>, Norm(index, length))
      [] OTHER -> R(1)

\* positionalMultiplier giving a single-instance component no positional factor
positionalMultiplierSingleExempt(disasterId, index, length) ==
    CASE length = 1 -> R(1)
      [] disasterId = Tsunami -> RMax(R(0), RSub(<<3, 2>>, Norm(index, length)))
      [] disasterId = Earthquake -> RSub(<<6, 5>>, Norm(index, length * 2))
      [] OTHER -> R(1)

\* positionalMultiplier growing with the level index for a tsunami
positionalMultiplierRising(disasterId, index, length) ==
    CASE disasterId = Tsunami -> RMax(R(0), RSub(<<1, 2>>, RSub(R(0), Norm(index, length))))
      [] disasterId = Earthquake -> RSub(<<6, 5>>, Norm(index, length * 2))
      [] OTHER -> R(1)

positionalMultiplier(disasterId, index, length) ==
    CASE disasterId = Tsunami -> RMax(R(0), RSub(<<3, 2>>, Norm(index, length)))
      [] disasterId = Earthquake -> RSub(<<6, 5>>, Norm(index, length * 2))
      [] OTHER -> R(1)

\* skipsDamage skipping no component
skipsDamageNever(componentId) == componentId \notin BuildingComponentId

\* if (defenseComponents.includes(componentId)) continue
skipsDamage(componentId) == componentId \in defenseComponents

\* levelDamage without the floor at 0
levelDamageNoFloor(effectivePower, resistance) == RSub(effectivePower, resistance)

\* let damage = Math.max(0, effectivePower - resistance)
levelDamage(effectivePower, resistance) == RMax(R(0), RSub(effectivePower, resistance))

uniformHealth(disasterId, disasterPower, bs, newHealth, bonus) ==
    LET defenseResistance == R(Resistance(defenseOf(disasterId), bs[defenseOf(disasterId)][1]))
        effectivePower == RMax(R(0), RSub(disasterPower, defenseResistance))
        damage(c, k) ==
            RMul(RMul(levelDamage(effectivePower, R(Resistance(c, bs[c][k]))),
                      positionalMultiplier(disasterId, k - 1, Len(bs[c]))),
                 RSub(R(1), bonus))
    IN  [c \in DOMAIN newHealth |->
            IF skipsDamage(c) THEN newHealth[c]
            ELSE [k \in DOMAIN newHealth[c] |-> Damaged(newHealth[c][k], damage(c, k))]]

\* the health map that the callback hands to setComponentHealth
resolveWave(disasterId, disasterPower, bs, newHealth, bonus) ==
    IF disasterId = LightningStorm
    THEN lightningHealth(disasterPower, bs, newHealth, bonus)
    ELSE uniformHealth(disasterId, disasterPower, bs, newHealth, bonus)

averageHealth(h) ==
    LET all == Flat(h) IN RDiv(RSumSeq(all), R(Len(all)))

\* resultMessageOf comparing with >= instead of >
resultMessageOfNonStrict(h) ==
    LET avg == averageHealth(h)
    IN  [tier |-> IF RLeq(R(75), avg) THEN "minimal"
                  ELSE IF RLeq(R(50), avg) THEN "significant"
                  ELSE IF RLeq(R(20), avg) THEN "severe"
                  ELSE "collapse",
         finalHealth |-> toFixed0(avg)]

\* the tier of the result message and the integrity embedded in it
resultMessageOf(h) ==
    LET avg == averageHealth(h)
    IN  [tier |-> IF RLt(R(75), avg) THEN "minimal"
                  ELSE IF RLt(R(50), avg) THEN "significant"
                  ELSE IF RLt(R(20), avg) THEN "severe"
                  ELSE "collapse",
         finalHealth |-> toFixed0(avg)]

(***************************************************************************)
(* runSimulationWave: the values captured by the callback it schedules.    *)
(***************************************************************************)
waveNumberOf(ph) ==
    CASE ph \in {"wave_1", "repair_1"} -> 1
      [] ph \in {"wave_2", "repair_2"} -> 2
      [] ph \in {"wave_3", "repair_3"} -> 3

wavePhase(n) == CASE n = 1 -> "wave_1" [] n = 2 -> "wave_2" [] n = 3 -> "wave_3"
repairPhase(n) == CASE n = 1 -> "repair_1" [] n = 2 -> "repair_2" [] n = 3 -> "repair_3"

runSimulationWave(disasterId, waveNumber, h, bs) ==
    [disasterId |-> disasterId,
     waveNumber |-> waveNumber,
     disasterPower |-> disasterPowerOf(disasterId, waveNumber),
     newHealth |-> JSONClone(h),
     buildingState |-> bs,
     structuralBonus |-> structuralBonus(bs)]

\* useEffect on [phase, activeDisaster, runSimulationWave]: the pending
\* callbacks after a commit with phase ph, disaster ad, health h, building bs
waveEffect(tm, ph, ad, h, bs) ==
    IF ph \in WavePhases /\ ad # NULL
    THEN Append(tm, runSimulationWave(ad, waveNumberOf(ph), h, bs))
    ELSE tm

NoWave ==
    [count |-> 0, disasterId |-> NULL, waveNumber |-> 0, buildingState |-> <<>>,
     bonus |-> R(0), input |-> <<>>, output |-> <<>>]

(***************************************************************************)
(* sounds.ts: the module-level variables, kept in the record `sound`, and  *)
(* the exported functions as operators from a record to the record they    *)
(* leave.  The Web Audio nodes (musicNodes, oscillators) are not part of    *)
(* the record.  No session handler reads these variables.                  *)
(***************************************************************************)
InitialSound ==
    [audioContext    |-> FALSE,     \* whether the AudioContext has been created
     sfxVolume       |-> R(1),
     musicVolume     |-> <<1, 2>>,
     isGloballyMuted |-> FALSE,
     lastSfxVolume   |-> R(1),
     lastMusicVolume |-> <<1, 2>>,
     musicInterval   |-> NULL,      \* NULL, or "timeout" for a pending setTimeout handle
     currentStep     |-> 0]

\* in a browser window
initAudioContext(s) == [s EXCEPT !.audioContext = TRUE]

\* Math.max(0, Math.min(1, volume))
clampVolume(volume) == RMax(R(0), RMin(R(1), volume))

setSfxVolume(s, volume) ==
    LET t == [s EXCEPT !.sfxVolume = clampVolume(volume)]
    IN  IF ~t.isGloballyMuted THEN [t EXCEPT !.lastSfxVolume = t.sfxVolume] ELSE t

setMusicVolume(s, volume) ==
    LET t == [s EXCEPT !.musicVolume = clampVolume(volume)]
    IN  IF ~t.isGloballyMuted THEN [t EXCEPT !.lastMusicVolume = t.musicVolume] ELSE t

stopMusic(s) == [s EXCEPT !.musicInterval = NULL, !.currentStep = 0]

\* one run of scheduleNextNote: the note, currentStep++ and the next setTimeout
scheduleNextNote(s) == [s EXCEPT !.currentStep = @ + 1, !.musicInterval = "timeout"]

playMusic(s) ==
    LET t == initAudioContext(s)
    IN  IF ~t.audioContext \/ t.musicInterval # NULL \/ t.isGloballyMuted
        THEN t
        ELSE scheduleNextNote(t)

toggleMute(s) ==
    LET t == [initAudioContext(s) EXCEPT !.isGloballyMuted = ~@]
    IN  IF t.isGloballyMuted
        THEN LET stored == [t EXCEPT !.lastSfxVolume = t.sfxVolume,
                                     !.lastMusicVolume = t.musicVolume]
             IN  setMusicVolume(setSfxVolume(stopMusic(stored), R(0)), R(0))
        ELSE LET sfx == setSfxVolume(t, t.lastSfxVolume)
             IN  playMusic(setMusicVolume(sfx, sfx.lastMusicVolume))

(***************************************************************************)
(* Initial state of the App component.                                     *)
(***************************************************************************)
Init ==
    /\ gameState = "splash"
    /\ cat = 1
    /\ buildingState = INITIAL_BUILDING_STATE
    /\ componentHealth = INITIAL_HEALTH_STATE
    /\ phase = "idle"
    /\ activeDisaster = NULL
    /\ resultMessage = NoResult
    /\ totalCost = R(calculateInitialCost)
    /\ timers = <<>>
    /\ ops = 0
    /\ lastWave = NoWave
    /\ sound = InitialSound

(***************************************************************************)
(* Screen navigation.                                                      *)
(***************************************************************************)
handleStartGame ==
    /\ gameState = "splash"
    /\ gameState' = "playing"
    /\ UNCHANGED <<buildingState, componentHealth, phase, activeDisaster, resultMessage,
                   totalCost, timers, cat, ops, lastWave, sound>>

handleShowOptions ==
    /\ gameState = "splash"
    /\ gameState' = "options"
    /\ UNCHANGED <<buildingState, componentHealth, phase, activeDisaster, resultMessage,
                   totalCost, timers, cat, ops, lastWave, sound>>

handleBackToSplash ==
    /\ gameState = "options"
    /\ gameState' = "splash"
    /\ UNCHANGED <<buildingState, componentHealth, phase, activeDisaster, resultMessage,
                   totalCost, timers, cat, ops, lastWave, sound>>

(***************************************************************************)
(* handleReset; the pending callbacks are not cleared.                     *)
(***************************************************************************)
\* resetSession leaving the total cost as it is
resetSessionKeepingCost ==
    /\ buildingState' = INITIAL_BUILDING_STATE
    /\ componentHealth' = INITIAL_HEALTH_STATE
    /\ phase' = "idle"
    /\ activeDisaster' = NULL
    /\ resultMessage' = NoResult
    /\ totalCost' = totalCost
    /\ timers' = waveEffect(timers, phase', activeDisaster', componentHealth', buildingState')

resetSession ==
    /\ buildingState' = INITIAL_BUILDING_STATE
    /\ componentHealth' = INITIAL_HEALTH_STATE
    /\ phase' = "idle"
    /\ activeDisaster' = NULL
    /\ resultMessage' = NoResult
    /\ totalCost' = R(calculateInitialCost)
    /\ timers' = waveEffect(timers, phase', activeDisaster', componentHealth', buildingState')

\* "Construir Novamente" in the results panel
handleReset ==
    /\ gameState = "playing"
    /\ phase = "results"
    /\ ops < MaxOps
    /\ resetSession
    /\ ops' = ops + 1
    /\ UNCHANGED <<gameState, cat, lastWave, sound>>

\* the home button of the header
handleBackToMenu ==
    /\ gameState = "playing"
    /\ ops < MaxOps
    /\ resetSession
    /\ gameState' = "splash"
    /\ ops' = ops + 1
    /\ UNCHANGED <<cat, lastWave, sound>>

(***************************************************************************)
(* handleMaterialChange, enabled as the idle control panel enables it.     *)
(***************************************************************************)
\* costDifferenceOf adding the cost of the new material without refunding the old one
costDifferenceOfNoRefund(component, oldMaterial, material) ==
    LET newMaterialCost == Cost(component, material)
    IN  newMaterialCost

\* costDifference of handleMaterialChange
costDifferenceOf(component, oldMaterial, material) ==
    LET oldMaterialCost == Cost(component, oldMaterial)
        newMaterialCost == Cost(component, material)
    IN  newMaterialCost - oldMaterialCost

activeDefenseSystem(bs) == {id \in defenseComponents : bs[id][1] # "weak"}

\* materialSelectorEnabled without the exclusion between defense systems
materialSelectorEnabledAnyDefense(component) == phase = "idle"

\* disabled={isControlsDisabled} and, in the defense tab, isComponentDisabled
materialSelectorEnabled(component) ==
    /\ phase = "idle"
    /\ component \in defenseComponents =>
          activeDefenseSystem(buildingState) \subseteq {component}

\* the state updates of handleMaterialChange and the effects they trigger
applyMaterialChange(component, material, levelIndex) ==
    /\ ops < MaxOps
    /\ LET costDifference ==
               costDifferenceOf(component, buildingState[component][levelIndex], material)
       IN  /\ buildingState' = [buildingState EXCEPT ![component][levelIndex] = material]
           /\ totalCost' = RAdd(totalCost, R(costDifference))
    /\ ops' = ops + 1
    /\ timers' = waveEffect(timers, phase, activeDisaster, componentHealth, buildingState')

\* handleMaterialChange without the return outside the idle phase
handleMaterialChangeAnyPhase(component, material, levelIndex) ==
    /\ gameState = "playing"
    /\ IF buildingState[component][levelIndex] = material
       THEN UNCHANGED <<buildingState, totalCost, ops, timers>>
       ELSE /\ component \in defenseComponents =>
                  activeDefenseSystem(buildingState) \subseteq {component}
            /\ applyMaterialChange(component, material, levelIndex)
    /\ UNCHANGED <<gameState, componentHealth, phase, activeDisaster, resultMessage,
                   cat, lastWave, sound>>

\* a request outside the idle phase, or for the material already selected, returns
\* with nothing changed
handleMaterialChange(component, material, levelIndex) ==
    /\ gameState = "playing"
    /\ IF phase # "idle" \/ buildingState[component][levelIndex] = material
       THEN UNCHANGED <<buildingState, totalCost, ops, timers>>
       ELSE /\ materialSelectorEnabled(component)
            /\ applyMaterialChange(component, material, levelIndex)
    /\ UNCHANGED <<gameState, componentHealth, phase, activeDisaster, resultMessage,
                   cat, lastWave, sound>>

(***************************************************************************)
(* handleStartSimulation and handleNextWave, each with the effect that     *)
(* dispatches the wave.                                                    *)
(***************************************************************************)
handleStartSimulation(disasterId) ==
    /\ gameState = "playing"
    /\ phase = "idle"
    /\ Len(timers) < MaxTimers
    /\ ops < MaxOps
    /\ phase' = "wave_1"
    /\ activeDisaster' = disasterId
    /\ resultMessage' = NoResult
    /\ ops' = ops + 1
    /\ timers' = waveEffect(timers, phase', activeDisaster', componentHealth, buildingState)
    /\ UNCHANGED <<gameState, buildingState, componentHealth, totalCost,
                   cat, lastWave, sound>>

handleNextWave ==
    /\ gameState = "playing"
    /\ phase \in RepairPhases
    /\ Len(timers) < MaxTimers
    /\ LET currentWave == waveNumberOf(phase)
       IN  phase' = IF currentWave < 3 THEN wavePhase(currentWave + 1) ELSE phase
    /\ timers' = waveEffect(timers, phase', activeDisaster, componentHealth, buildingState)
    /\ UNCHANGED <<gameState, buildingState, componentHealth, activeDisaster, resultMessage,
                   totalCost, cat, ops, lastWave, sound>>

(***************************************************************************)
(* handleRepairComponent, offered by the repair panel for damaged levels.  *)
(***************************************************************************)
\* repairCostOf charging the material cost per 100 points
repairCostOfPerHundred(materialCost, currentHealth) ==
    LET healthToRestore == RSub(R(100), currentHealth)
        costPerPoint == Norm(materialCost, 100)
    IN  RMul(healthToRestore, costPerPoint)

\* healthToRestore * costPerPoint, in handleRepairComponent and in the repair panel
repairCostOf(materialCost, currentHealth) ==
    LET healthToRestore == RSub(R(100), currentHealth)
        costPerPoint == Norm(materialCost, 200)
    IN  RMul(healthToRestore, costPerPoint)

\* Intl.NumberFormat('pt-BR', {style: 'currency', currency: 'BRL',
\* minimumFractionDigits: 0}).format(x), x >= 0: the amount printed, which has at
\* most two fraction digits
formatBRL(x) == Norm((200 * x[1] + x[2]) \div (2 * x[2]), 100)

\* the items of groupedDamagedComponents: the levels listed by the repair panel
damagedItems ==
    {<<c, i>> \in BuildingComponentId \X (1..NUMBER_OF_FLOORS) :
        i \in DOMAIN componentHealth[c] /\ RLt(componentHealth[c][i], R(100))}

\* the price printed on the repair button of a listed level
shownRepairCost(componentId, levelIndex) ==
    formatBRL(repairCostOf(Cost(componentId, buildingState[componentId][levelIndex]),
                           componentHealth[componentId][levelIndex]))

\* restoredHealth moving the level half of the way to 100
restoredHealthHalfway(currentHealth) == RDiv(RAdd(currentHealth, R(100)), R(2))

\* newHealth[componentId][levelIndex] = 100
restoredHealth(currentHealth) == R(100)

\* the total cost and the health that handleRepairComponent leaves; a level whose
\* health is already 100 or more makes it return with nothing changed
repairOutcome(componentId, levelIndex, h, bs, total) ==
    LET materialId == bs[componentId][levelIndex]
        currentHealth == h[componentId][levelIndex]
        repairCost == repairCostOf(Cost(componentId, materialId), currentHealth)
    IN  IF RLeq(R(100), currentHealth)
        THEN [totalCost |-> total, componentHealth |-> h]
        ELSE [totalCost |-> RAdd(total, repairCost),
              componentHealth |->
                  [JSONClone(h) EXCEPT ![componentId][levelIndex] =
                                           restoredHealth(currentHealth)]]

handleRepairComponent(componentId, levelIndex) ==
    /\ gameState = "playing"
    /\ phase \in RepairPhases
    /\ IF RLt(componentHealth[componentId][levelIndex], R(100))
       THEN /\ <<componentId, levelIndex>> \in damagedItems
            /\ ops < MaxOps
            /\ ops' = ops + 1
       ELSE ops' = ops
    /\ LET o == repairOutcome(componentId, levelIndex, componentHealth, buildingState,
                              totalCost)
       IN  /\ totalCost' = o.totalCost
           /\ componentHealth' = o.componentHealth
    /\ timers' = waveEffect(timers, phase, activeDisaster, componentHealth', buildingState)
    /\ UNCHANGED <<gameState, buildingState, phase, activeDisaster, resultMessage,
                   cat, lastWave, sound>>

(***************************************************************************)
(* The setTimeout callback of runSimulationWave.  All callbacks have the   *)
(* same delay, so they run in the order in which they were scheduled.      *)
(***************************************************************************)
waveCallback ==
    /\ timers # <<>>
    /\ LET t == Head(timers)
           newHealth == resolveWave(t.disasterId, t.disasterPower, t.buildingState,
                                    t.newHealth, t.structuralBonus)
       IN  /\ componentHealth' = newHealth
           /\ IF t.waveNumber < 3
              THEN /\ phase' = repairPhase(t.waveNumber)
                   /\ UNCHANGED resultMessage
              ELSE /\ phase' = "results"
                   /\ resultMessage' = resultMessageOf(componentHealth')
    /\ timers' = waveEffect(Tail(timers), phase', activeDisaster, componentHealth', buildingState)
    /\ UNCHANGED <<gameState, buildingState, activeDisaster, totalCost,
                   cat, ops, lastWave, sound>>

Next ==
    \/ handleStartGame
    \/ handleShowOptions
    \/ handleBackToSplash
    \/ handleReset
    \/ handleBackToMenu
    \/ \E c \in BuildingComponentId, m \in MaterialTypeId :
          \E i \in DOMAIN buildingState[c] :
              /\ phase = "idle"
              /\ buildingState[c][i] # m
              /\ handleMaterialChange(c, m, i)
    \* a request that returns early does not read which material it is given
    \/ \E c \in {Pillars, LightningRod} :
          /\ phase # "idle" \/ buildingState[c][1] = "weak"
          /\ handleMaterialChange(c, IF phase = "idle" THEN buildingState[c][1] ELSE "strong", 1)
    \/ \E d \in DisasterId : handleStartSimulation(d)
    \/ handleNextWave
    \/ \E c \in BuildingComponentId :
          \E i \in DOMAIN componentHealth[c] :
              /\ RLt(componentHealth[c][i], R(100))
              /\ handleRepairComponent(c, i)
    \* a repair request for a level at health 100 returns early whatever the level is
    \/ /\ componentHealth[WindDampers][1] = R(100)
       /\ handleRepairComponent(WindDampers, 1)
    \/ waveCallback

Spec == Init /\ [][Next]_vars

(***************************************************************************)
(* The wave resolver applied directly: the computation of one callback of  *)
(* runSimulationWave on chosen catalogs, buildings of 0..MaxWaveFloors     *)
(* floors and the health maps that earlier applications produce.           *)
(***************************************************************************)
StructChoices ==
    { <<"weak", "weak">>, <<"medium", "medium">>, <<"strong", "strong">>,
      <<"weak", "strong">>, <<"medium", "weak">> }

DefenseChoices ==
    { <<LightningRod, "weak">> } \cup (defenseComponents \X {"medium", "strong"})

\* n floors; the top floor built of s[2], the other levels and the roof of s[1];
\* defense d[1] of material d[2], the other defenses weak
BuildingOf(n, s, d) ==
    [c \in BuildingComponentId |->
        IF c \in floorComponents THEN [i \in 1..n |-> IF i = n THEN s[2] ELSE s[1]]
        ELSE IF c = Roof THEN <<s[1]>>
        ELSE IF c = d[1] THEN <<d[2]>>
        ELSE <<"weak">>]

\* health maps of an n-floor building: intact, and damaged more towards the top
HealthChoices(n) ==
    { InitialHealth(n),
      [c \in BuildingComponentId |->
          IF c \in floorComponents THEN [i \in 1..n |-> Norm(100, i + 1)]
          ELSE <<Norm(85, 2)>>] }

InitWave ==
    /\ gameState = "playing"
    /\ cat \in DOMAIN Catalogs
    /\ \E n \in 0..MaxWaveFloors, s \in StructChoices, d \in DefenseChoices :
          /\ cat # 1 => s[1] = s[2] /\ d[2] # "strong"
          /\ buildingState = BuildingOf(n, s, d)
          /\ componentHealth \in HealthChoices(n)
    /\ phase = "idle"
    /\ activeDisaster = NULL
    /\ resultMessage = NoResult
    /\ totalCost = R(0)
    /\ timers = <<>>
    /\ ops = MaxOps
    /\ lastWave = NoWave
    /\ sound = InitialSound

\* successive applications on one health map take increasing wave numbers
applyWave(disasterId, waveNumber) ==
    /\ lastWave.count < MaxWaves
    /\ waveNumber > lastWave.waveNumber
    /\ LET t == runSimulationWave(disasterId, waveNumber, componentHealth, buildingState)
       IN  /\ componentHealth' = resolveWave(t.disasterId, t.disasterPower, t.buildingState,
                                             t.newHealth, t.structuralBonus)
           /\ lastWave' = [count |-> lastWave.count + 1,
                           disasterId |-> disasterId,
                           waveNumber |-> waveNumber,
                           buildingState |-> buildingState,
                           bonus |-> t.structuralBonus,
                           input |-> componentHealth,
                           output |-> componentHealth']
    /\ UNCHANGED <<gameState, buildingState, phase, activeDisaster, resultMessage,
                   totalCost, timers, cat, ops, sound>>

NextWave == \E d \in DisasterId, w \in 1..3 : applyWave(d, w)

SpecWave == InitWave /\ [][NextWave]_vars

(***************************************************************************)
(* The structural bonus computed directly, for every material selection of *)
(* Pillars, Beams and Floor on 0..MaxBonusFloors floors.                   *)
(***************************************************************************)
InitBonus ==
    /\ gameState = "playing"
    /\ cat = 1
    /\ \E n \in 0..MaxBonusFloors :
          /\ buildingState \in
                { [c \in BuildingComponentId |->
                      IF c \in {Pillars, Beams, Floor} THEN sel[c]
                      ELSE InitialBuilding(n)[c]] :
                  sel \in [{Pillars, Beams, Floor} -> [1..n -> MaterialTypeId]] }
          /\ componentHealth = InitialHealth(n)
    /\ phase = "idle"
    /\ activeDisaster = NULL
    /\ resultMessage = NoResult
    /\ totalCost = R(0)
    /\ timers = <<>>
    /\ ops = MaxOps
    /\ lastWave = NoWave
    /\ sound = InitialSound

applyBonus ==
    /\ lastWave.count = 0
    /\ lastWave' = [lastWave EXCEPT !.count = 1,
                                    !.buildingState = buildingState,
                                    !.bonus = structuralBonus(buildingState)]
    /\ UNCHANGED <<gameState, buildingState, componentHealth, phase, activeDisaster,
                   resultMessage, totalCost, timers, cat, ops, sound>>

NextBonus == applyBonus

SpecBonus == InitBonus /\ [][NextBonus]_vars

(***************************************************************************)
(* The result classification applied directly: the else branch of the      *)
(* callback of wave 3 on health maps of 0..MaxResultFloors floors in which *)
(* the structure and the defenses each have one of a few health values.    *)
(***************************************************************************)
ResultHealthValues == {0, 20, 40, 50, 70, 75, 76, 95, 100}

InitResult ==
    /\ gameState = "playing"
    /\ cat = 1
    /\ \E n \in 0..MaxResultFloors, v \in ResultHealthValues, d \in ResultHealthValues :
          /\ buildingState = InitialBuilding(n)
          /\ componentHealth =
                [c \in BuildingComponentId |->
                    IF c \in floorComponents THEN [i \in 1..n |-> R(v)]
                    ELSE IF c = Roof THEN <<R(v)>>
                    ELSE <<R(d)>>]
    /\ phase = "wave_3"
    /\ activeDisaster = Hurricane
    /\ resultMessage = NoResult
    /\ totalCost = R(0)
    /\ timers = <<>>
    /\ ops = MaxOps
    /\ lastWave = NoWave
    /\ sound = InitialSound

classifyResult ==
    /\ phase = "wave_3"
    /\ phase' = "results"
    /\ resultMessage' = resultMessageOf(componentHealth)
    /\ UNCHANGED <<gameState, buildingState, componentHealth, activeDisaster, totalCost,
                   timers, cat, ops, lastWave, sound>>

NextResult == classifyResult

SpecResult == InitResult /\ [][NextResult]_vars

(***************************************************************************)
(* sounds.ts called directly: every sequence of toggleMute, setSfxVolume,  *)
(* setMusicVolume, playMusic and stopMusic calls, with the timeout of the   *)
(* music loop, on volumes inside and outside [0, 1].                       *)
(***************************************************************************)
VolumeInputs == {R(-1), R(0), <<1, 4>>, <<1, 2>>, R(1), R(2)}

InitSound == Init

sessionVars == <<gameState, buildingState, componentHealth, phase, activeDisaster,
                 resultMessage, totalCost, timers, cat, ops, lastWave>>

\* handleToggleMute: setIsMuted(toggleMute())
handleToggleMute ==
    /\ sound' = toggleMute(sound)
    /\ UNCHANGED sessionVars

handleSfxVolumeChange(volume) ==
    /\ sound' = setSfxVolume(sound, volume)
    /\ UNCHANGED sessionVars

handleMusicVolumeChange(volume) ==
    /\ sound' = setMusicVolume(sound, volume)
    /\ UNCHANGED sessionVars

\* playMusic() of ensureMusicIsStarted
callPlayMusic ==
    /\ sound' = playMusic(sound)
    /\ UNCHANGED sessionVars

\* stopMusic() of handleReset
callStopMusic ==
    /\ sound' = stopMusic(sound)
    /\ UNCHANGED sessionVars

\* the setTimeout of the music loop fires
musicTimeout ==
    /\ sound.musicInterval # NULL
    /\ sound.currentStep < MaxSteps
    /\ sound' = scheduleNextNote(sound)
    /\ UNCHANGED sessionVars

NextSound ==
    \/ handleToggleMute
    \/ \E volume \in VolumeInputs : handleSfxVolumeChange(volume)
    \/ \E volume \in VolumeInputs : handleMusicVolumeChange(volume)
    \/ callPlayMusic
    \/ callStopMusic
    \/ musicTimeout

SpecSound == InitSound /\ [][NextSound]_vars

(***************************************************************************)
(* Properties.                                                             *)
(***************************************************************************)
InUnitRange(h) == RLeq(R(0), h) /\ RLeq(h, R(100))

\* C1: in every reachable session state the health map has the components of the
\* building state, each with as many levels as the building state has, and every
\* health value lies in [0, 100].
C1_HealthShapeAndRange ==
    /\ DOMAIN componentHealth = DOMAIN buildingState
    /\ \A c \in DOMAIN buildingState :
          /\ Len(componentHealth[c]) = Len(buildingState[c])
          /\ \A i \in 1..Len(componentHealth[c]) : InUnitRange(componentHealth[c][i])

\* a repair phase after two tsunami waves: a destroyed level, a damaged level
\* and a level repaired to 100
C1_Witness ==
    /\ phase = "repair_2"
    /\ componentHealth[Pillars][1] = R(0)
    /\ RLt(R(0), componentHealth[Pillars][2])
    /\ RLt(componentHealth[Pillars][2], R(100))
    /\ componentHealth[Beams][1] = R(100)
    /\ componentHealth[Walls][1] = R(0)

\* C2: the health map produced by one wave resolution is, at every component and
\* level, less than or equal to the health map it was given.
C2_WaveOnlyDamages ==
    lastWave.count > 0 =>
        \A c \in DOMAIN lastWave.input :
            \A i \in DOMAIN lastWave.input[c] :
                RLeq(lastWave.output[c][i], lastWave.input[c][i])

\* a resolution that lowered one level and left another level unchanged
C2_Witness ==
    /\ lastWave.count > 0
    /\ \E c \in DOMAIN lastWave.input : \E i \in DOMAIN lastWave.input[c] :
          RLt(lastWave.output[c][i], lastWave.input[c][i])
    /\ \E c \in floorComponents : \E i \in DOMAIN lastWave.input[c] :
          /\ lastWave.output[c][i] = lastWave.input[c][i]
          /\ RLt(R(0), lastWave.input[c][i])

\* sum of the resistances, and number, of all Pillars, Beams and Floor levels
scannedTotal(bs) ==
    SumSeq([i \in DOMAIN bs[Pillars] |-> Resistance(Pillars, bs[Pillars][i])])
    + SumSeq([i \in DOMAIN bs[Beams] |-> Resistance(Beams, bs[Beams][i])])
    + SumSeq([i \in DOMAIN bs[Floor] |-> Resistance(Floor, bs[Floor][i])])

scannedCount(bs) == Len(bs[Pillars]) + Len(bs[Beams]) + Len(bs[Floor])

\* C3: the structural bonus is in [0, MAX_STRUCTURAL_BONUS]; it is 0 when no level
\* is scanned or the average resistance of the Pillars, Beams and Floor levels is
\* <= MIN_STRUCTURAL_RESISTANCE, MAX_STRUCTURAL_BONUS when the average is >=
\* MAX_STRUCTURAL_RESISTANCE, the linear interpolation in between, and no smaller
\* average gives a larger bonus.
C3_BonusRangeAndMonotone ==
    lastWave.count = 1 =>
        LET b == lastWave.bonus
            t == scannedTotal(buildingState)
            n == scannedCount(buildingState)
        IN  /\ RLeq(R(0), b) /\ RLeq(b, MAX_STRUCTURAL_BONUS)
            /\ n = 0 => b = R(0)
            /\ n > 0 /\ t <= MIN_STRUCTURAL_RESISTANCE * n => b = R(0)
            /\ n > 0 /\ t >= MAX_STRUCTURAL_RESISTANCE * n => b = MAX_STRUCTURAL_BONUS
            /\ n > 0 /\ t > MIN_STRUCTURAL_RESISTANCE * n /\ t < MAX_STRUCTURAL_RESISTANCE * n =>
                  RMul(b, R((MAX_STRUCTURAL_RESISTANCE - MIN_STRUCTURAL_RESISTANCE) * n))
                      = RMul(R(t - MIN_STRUCTURAL_RESISTANCE * n), MAX_STRUCTURAL_BONUS)
            \* every smaller total over the same number of levels
            /\ \A t2 \in 0..t : RLeq(bonusOf(t2, n), b)
            \* for every other number of levels, the nearest averages below and above
            /\ \A n2 \in 1..3 * (MaxBonusFloors + 1) :
                  n > 0 =>
                      /\ RLeq(bonusOf((t * n2) \div n, n2), b)
                      /\ RLeq(b, bonusOf((t * n2 + n - 1) \div n, n2))

\* a bonus strictly between 0 and the maximum
C3_Witness ==
    /\ lastWave.count = 1
    /\ RLt(R(0), lastWave.bonus)
    /\ RLt(lastWave.bonus, MAX_STRUCTURAL_BONUS)
    /\ Len(buildingState[Pillars]) = MaxBonusFloors

PhaseSequence ==
    <<"idle", "wave_1", "repair_1", "wave_2", "repair_2", "wave_3", "repair_3", "results">>

PhaseIndex(ph) == CHOOSE k \in DOMAIN PhaseSequence : PhaseSequence[k] = ph

\* C4: apart from reset, which returns to idle from any phase, every change of the
\* simulation phase is a step to the immediate successor in the sequence
\* idle, wave_1, repair_1, wave_2, repair_2, wave_3, repair_3, results.
C4_LinearPhaseSequence ==
    [][phase' # phase =>
          \/ (handleReset \/ handleBackToMenu) /\ phase' = "idle"
          \/ PhaseIndex(phase') = PhaseIndex(phase) + 1]_vars

\* C5: at any time at most one wave resolution is in flight, and a resolution is
\* scheduled in exactly the steps that enter a wave_n phase.
C5_OneResolutionPerWaveEntry ==
    [][/\ Len(timers) <= 1
       /\ Len(timers') <= 1
       /\ (phase' \in WavePhases /\ phase' # phase) <=> (Len(timers') = Len(timers) + 1)]_vars

\* C6: no reachable state is in a wave_n phase with no resolution pending.
C6_NoStuckWave == phase \in WavePhases => timers # <<>>

\* cost of the materials selected in bs
RECURSIVE costOfComponents(_, _)
costOfComponents(bs, cs) ==
    IF cs = {} THEN 0
    ELSE LET c == CHOOSE x \in cs : TRUE
         IN  SumSeq([i \in DOMAIN bs[c] |-> COMPONENT_CONFIG[c][bs[c][i]].cost])
                 + costOfComponents(bs, cs \ {c})

\* C7: immediately after a reset, from any phase, the building state is the static
\* default configuration, every health value is 100, the phase is idle with no
\* active disaster and no result message, and the total cost is the sum of the
\* costs of the default materials.
C7_ResetRestoresDefaults ==
    [][(handleReset \/ handleBackToMenu) =>
          /\ buildingState' = INITIAL_BUILDING_STATE
          /\ DOMAIN componentHealth' = DOMAIN INITIAL_BUILDING_STATE
          /\ \A c \in DOMAIN componentHealth' :
                /\ Len(componentHealth'[c]) = Len(INITIAL_BUILDING_STATE[c])
                /\ \A i \in DOMAIN componentHealth'[c] : componentHealth'[c][i] = R(100)
          /\ phase' = "idle"
          /\ activeDisaster' = NULL
          /\ resultMessage' = NoResult
          /\ totalCost' = R(costOfComponents(INITIAL_BUILDING_STATE, BuildingComponentId))]_vars

\* the session just reset from a running wave, after a material change
C7_Witness ==
    /\ gameState = "splash"
    /\ ops = 3
    /\ timers # <<>>
    /\ phase = "idle"
    /\ Head(timers).buildingState # INITIAL_BUILDING_STATE
    /\ buildingState = INITIAL_BUILDING_STATE
    /\ totalCost = R(costOfComponents(INITIAL_BUILDING_STATE, BuildingComponentId))

\* numerators of the wave multipliers 0.6, 0.8, 1.0 over the denominator 5
waveFifths == <<3, 4, 5>>

rodAbsorbs(w) ==
    5 * COMPONENT_CONFIG[LightningRod][w.buildingState[LightningRod][1]].resistance
        >= DISASTER_CONFIG[LightningStorm] * waveFifths[w.waveNumber]

\* C8: a LightningStorm wave in which the resistance of the lightning rod material
\* is >= power x wave multiplier leaves the health of every component and level
\* equal to the input health.
C8_LightningNoOp ==
    (lastWave.count > 0 /\ lastWave.disasterId = LightningStorm /\ rodAbsorbs(lastWave)) =>
        lastWave.output = lastWave.input

\* an absorbed lightning wave on a damaged building of at least three floors
C8_Witness ==
    /\ lastWave.count > 0
    /\ lastWave.disasterId = LightningStorm
    /\ rodAbsorbs(lastWave)
    /\ DISASTER_CONFIG[LightningStorm] > 0
    /\ Len(lastWave.input[Beams]) >= 3
    /\ RLt(lastWave.input[Roof][1], R(100))
    /\ lastWave.output = lastWave.input

\* C9: a wave of Earthquake, Hurricane or Tsunami whose disaster power is 0 leaves
\* the health map identical to the input health map.
C9_ZeroPowerNoOp ==
    (/\ lastWave.count > 0
     /\ lastWave.disasterId \in {Earthquake, Hurricane, Tsunami}
     /\ DISASTER_CONFIG[lastWave.disasterId] = 0) =>
        lastWave.output = lastWave.input

\* a power-0 tsunami applied to a damaged building
C9_Witness ==
    /\ lastWave.count > 0
    /\ lastWave.disasterId = Tsunami
    /\ DISASTER_CONFIG[Tsunami] = 0
    /\ Len(lastWave.input[Glass]) >= 2
    /\ RLt(lastWave.input[Glass][2], R(100))
    /\ lastWave.output = lastWave.input

structuralLevels == floorComponents \cup roofComponents

hurricaneExpected(w, c, i) ==
    LET power == Norm(DISASTER_CONFIG[Hurricane] * waveFifths[w.waveNumber], 5)
        damper == R(COMPONENT_CONFIG[WindDampers][w.buildingState[WindDampers][1]].resistance)
        own == R(COMPONENT_CONFIG[c][w.buildingState[c][i]].resistance)
        raw == RMax(R(0), RSub(RMax(R(0), RSub(power, damper)), own))
    IN  RMax(R(0), RSub(w.input[c][i], RMul(raw, RSub(R(1), w.bonus))))

\* C10: after a Hurricane wave w every level of Pillars, Beams, Walls, Glass, Floor
\* and Roof has health max(0, h - max(0, max(0, power x m(w) - wind damper
\* resistance) - level material resistance) x (1 - bonus)), with no positional
\* modifier; power 100, wave 1, damper resistance 20, Glass resistance 10, bonus 0
\* and health 100 give 70.
C10_HurricaneDamage ==
    (lastWave.count > 0 /\ lastWave.disasterId = Hurricane) =>
        /\ \A c \in structuralLevels : \A i \in DOMAIN lastWave.input[c] :
              lastWave.output[c][i] = hurricaneExpected(lastWave, c, i)
        /\ \A i \in DOMAIN lastWave.input[Glass] :
              (/\ DISASTER_CONFIG[Hurricane] = 100
               /\ lastWave.waveNumber = 1
               /\ COMPONENT_CONFIG[WindDampers][lastWave.buildingState[WindDampers][1]].resistance = 20
               /\ COMPONENT_CONFIG[Glass][lastWave.buildingState[Glass][i]].resistance = 10
               /\ lastWave.bonus = R(0)
               /\ lastWave.input[Glass][i] = R(100)) =>
                  lastWave.output[Glass][i] = R(70)

\* the hurricane of the example: wave 1 on intact weak Glass behind a weak damper
C10_Witness ==
    /\ lastWave.count > 0
    /\ lastWave.disasterId = Hurricane
    /\ lastWave.waveNumber = 1
    /\ DISASTER_CONFIG[Hurricane] = 100
    /\ Len(lastWave.input[Glass]) >= 2
    /\ lastWave.buildingState[WindDampers][1] = "weak"
    /\ lastWave.buildingState[Glass][1] = "weak"
    /\ lastWave.bonus = R(0)
    /\ lastWave.input[Glass][1] = R(100)
    /\ lastWave.output[Glass][1] = R(70)

\* health after a wave of disaster power x multiplier behind the defense component
\* def, at level i of component c, the level damage scaled by factor
scaledExpected(w, disasterId, def, c, i, factor) ==
    LET power == Norm(DISASTER_CONFIG[disasterId] * waveFifths[w.waveNumber], 5)
        defense == R(COMPONENT_CONFIG[def][w.buildingState[def][1]].resistance)
        own == R(COMPONENT_CONFIG[c][w.buildingState[c][i]].resistance)
        raw == RMax(R(0), RSub(RMax(R(0), RSub(power, defense)), own))
    IN  RMax(R(0), RSub(w.input[c][i], RMul(RMul(raw, factor), RSub(R(1), w.bonus))))

\* base damage of level i of component c: max(0, effective power - resistance)
baseDamage(w, disasterId, def, c, i) ==
    LET power == Norm(DISASTER_CONFIG[disasterId] * waveFifths[w.waveNumber], 5)
        defense == R(COMPONENT_CONFIG[def][w.buildingState[def][1]].resistance)
        own == R(COMPONENT_CONFIG[c][w.buildingState[c][i]].resistance)
    IN  RMax(R(0), RSub(RMax(R(0), RSub(power, defense)), own))

tsunamiFactor(i, n) == RMax(R(0), RSub(<<3, 2>>, Norm(i - 1, n)))

\* C11: after a Tsunami wave, level index i (0-based) of a per-floor component with
\* n levels has lost the base damage scaled by max(0, 1.5 - i/n); of two levels with
\* the same material and the same input health the lower one loses at least as much
\* as the higher one, and strictly more when the base damage is positive and neither
\* result is clamped at 0; the ground floor of 5 gets 1.5 and the top floor 0.7.
C11_TsunamiPositional ==
    /\ tsunamiFactor(1, 5) = <<3, 2>>
    /\ tsunamiFactor(5, 5) = <<7, 10>>
    /\ (lastWave.count > 0 /\ lastWave.disasterId = Tsunami) =>
          \A c \in floorComponents :
             LET n == Len(lastWave.input[c])
             IN  /\ \A i \in 1..n :
                       lastWave.output[c][i] =
                           scaledExpected(lastWave, Tsunami, TsunamiBarriers, c, i,
                                          tsunamiFactor(i, n))
                 /\ \A i \in 1..n : \A j \in i + 1..n :
                       (/\ lastWave.buildingState[c][i] = lastWave.buildingState[c][j]
                        /\ lastWave.input[c][i] = lastWave.input[c][j]) =>
                           /\ RLeq(lastWave.output[c][i], lastWave.output[c][j])
                           /\ (/\ RLt(R(0), baseDamage(lastWave, Tsunami, TsunamiBarriers, c, i))
                               /\ RLt(R(0), lastWave.output[c][i])
                               /\ RLt(R(0), lastWave.output[c][j])) =>
                                  RLt(lastWave.output[c][i], lastWave.output[c][j])

\* a tsunami on five floors of one material: the ground floor loses strictly more
\* than the top floor and neither is destroyed
C11_Witness ==
    /\ lastWave.count > 0
    /\ lastWave.disasterId = Tsunami
    /\ Len(lastWave.input[Walls]) = 5
    /\ lastWave.buildingState[Walls][1] = lastWave.buildingState[Walls][5]
    /\ lastWave.input[Walls][1] = lastWave.input[Walls][5]
    /\ RLt(R(0), lastWave.output[Walls][1])
    /\ RLt(lastWave.output[Walls][1], lastWave.output[Walls][5])

\* sum and number of the health values of the components cs of h
RECURSIVE healthSum(_, _)
healthSum(h, cs) ==
    IF cs = {} THEN R(0)
    ELSE LET c == CHOOSE x \in cs : TRUE
         IN  RAdd(RSumSeq(h[c]), healthSum(h, cs \ {c}))

RECURSIVE healthCount(_, _)
healthCount(h, cs) ==
    IF cs = {} THEN 0
    ELSE LET c == CHOOSE x \in cs : TRUE
         IN  Len(h[c]) + healthCount(h, cs \ {c})

\* C12: the result tier is chosen from the arithmetic mean of all health values,
\* defenses included, by strict comparisons: mean > 75 minimal damage, else mean > 50
\* significant, else mean > 20 severely compromised, else collapse; a mean of exactly
\* 75 gives the '>50' tier and a mean of exactly 50 the '>20' tier.
C12_ResultTier ==
    phase = "results" =>
        LET sum == healthSum(componentHealth, BuildingComponentId)
            n == healthCount(componentHealth, BuildingComponentId)
            above(x) == RLt(R(x * n), sum)
            exactly(x) == sum = R(x * n)
            tier == resultMessage.tier
        IN  /\ tier = "minimal" <=> above(75)
            /\ tier = "significant" <=> above(50) /\ ~above(75)
            /\ tier = "severe" <=> above(20) /\ ~above(50)
            /\ tier = "collapse" <=> ~above(20)
            /\ exactly(75) => tier = "significant"
            /\ exactly(50) => tier = "severe"

\* three floors at 70 and defenses at 95: a mean of exactly 75, to which the
\* defenses contribute, classified as significant
C12_Witness ==
    /\ phase = "results"
    /\ Len(componentHealth[Walls]) = 3
    /\ componentHealth[Walls][1] = R(70)
    /\ componentHealth[WindDampers][1] = R(95)
    /\ resultMessage.tier = "significant"

\* the effect of a repair of level i of component c, without the price shown
repairEffect(c, i) ==
    LET h == componentHealth[c][i]
        charged == RSub(totalCost', totalCost)
    IN  /\ componentHealth' = [componentHealth EXCEPT ![c][i] = R(100)]
        /\ charged = RMul(RSub(R(100), h),
                          Norm(COMPONENT_CONFIG[c][buildingState[c][i]].cost, 200))
        /\ RLt(R(0), charged) \/ COMPONENT_CONFIG[c][buildingState[c][i]].cost = 0

\* C13: repairing a level whose health h is below 100 sets exactly that level to 100,
\* leaves every other health value unchanged and increases the total cost by exactly
\* (100 - h) x (cost of the material of that level / 200), material cost 200 and
\* health 40 charging 60; the repair panel lists the level and prints that price as
\* an amount with at most two fraction digits, which is the price charged rounded to
\* the nearest cent.
C13_RepairChargesAndShowsRounded ==
    [][\A c \in BuildingComponentId : \A i \in DOMAIN componentHealth[c] :
          (componentHealth'[c][i] # componentHealth[c][i] /\ handleRepairComponent(c, i)) =>
              LET charged == RSub(totalCost', totalCost)
                  shown == shownRepairCost(c, i)
              IN  /\ repairEffect(c, i)
                  /\ repairCostOf(200, R(40)) = R(60)
                  /\ <<c, i>> \in damagedItems
                  /\ RMul(shown, R(100))[2] = 1
                  /\ RLeq(RSub(shown, charged), <<1, 200>>)
                  /\ RLeq(RSub(charged, shown), <<1, 200>>)]_vars

\* C13 as stated: the price printed by the repair panel equals the price charged.
C13_ShownPriceEqualsCharged ==
    [][\A c \in BuildingComponentId : \A i \in DOMAIN componentHealth[c] :
          (componentHealth'[c][i] # componentHealth[c][i] /\ handleRepairComponent(c, i)) =>
              /\ repairEffect(c, i)
              /\ shownRepairCost(c, i) = RSub(totalCost', totalCost)]_vars

\* after a lightning wave the top Pillars level, at 200/3, was repaired for 50/3
\* while the Beams level beside it is still damaged
C13_Witness ==
    /\ phase = "repair_1"
    /\ activeDisaster = LightningStorm
    /\ componentHealth[Pillars][NUMBER_OF_FLOORS] = R(100)
    /\ RLt(componentHealth[Beams][NUMBER_OF_FLOORS], R(100))
    /\ totalCost = RAdd(R(calculateInitialCost), <<50, 3>>)

\* total cost less the costs of the materials selected in the building
costExcess(total, bs) == RSub(total, R(costOfComponents(bs, BuildingComponentId)))

isMaterialSwap ==
    \E c \in BuildingComponentId : \E i \in DOMAIN buildingState[c] :
        /\ buildingState'[c][i] # buildingState[c][i]
        /\ buildingState' = [buildingState EXCEPT ![c][i] = buildingState'[c][i]]
        /\ RSub(totalCost', totalCost) =
              R(COMPONENT_CONFIG[c][buildingState'[c][i]].cost
                  - COMPONENT_CONFIG[c][buildingState[c][i]].cost)

isRepair ==
    \E c \in BuildingComponentId : \E i \in DOMAIN componentHealth[c] :
        RLt(componentHealth[c][i], R(100)) /\ repairEffect(c, i)

\* C14: the total cost starts as the sum of the costs of the selected materials; a
\* material swap changes it by exactly (new material cost - old material cost), a
\* reset puts it back to the sum of the costs of the default materials, a repair adds
\* its charge, and no other step changes it or the materials: the total cost is the
\* sum of the costs of the selected materials plus the repair charges since the last
\* reset.
C14_CostAccounting ==
    /\ costExcess(totalCost, buildingState) = R(0)
    /\ [][\/ buildingState' = buildingState /\ totalCost' = totalCost
          \/ isMaterialSwap
          \/ (handleReset \/ handleBackToMenu) /\ costExcess(totalCost', buildingState') = R(0)
          \/ isRepair /\ buildingState' = buildingState]_vars

\* C14 as stated: in every reachable state the total cost equals the sum of the
\* costs of the selected materials.
C14_TotalIsMaterialSum == costExcess(totalCost, buildingState) = R(0)

\* a session with a swapped material and a paid repair
C14_Witness ==
    /\ phase \in RepairPhases
    /\ buildingState # INITIAL_BUILDING_STATE
    /\ activeDisaster # NULL
    /\ RLt(R(0), costExcess(totalCost, buildingState))
    /\ totalCost # R(calculateInitialCost)

\* C15: the building state is changed only by a material change in the idle phase
\* and by reset; a material change requested outside the idle phase leaves the
\* building state and the total cost unchanged; wave resolution, repair, start of a
\* simulation and next wave never change the building state, and every wave is
\* scheduled with the building state of the session, so that the waves of one run
\* use the same materials.
C15_BuildingChangesOnlyWhenIdle ==
    [][/\ buildingState' # buildingState =>
             /\ \/ handleReset \/ handleBackToMenu
                \/ phase = "idle" /\ phase' = "idle" /\ isMaterialSwap
             /\ ~(waveCallback \/ handleNextWave \/ isRepair
                      \/ \E d \in DisasterId : handleStartSimulation(d))
       /\ (phase # "idle" /\ (buildingState' # buildingState \/ totalCost' # totalCost)) =>
             ~\E c \in BuildingComponentId, m \in MaterialTypeId :
                 \E i \in DOMAIN buildingState[c] : handleMaterialChange(c, m, i)
       /\ Len(timers') > Len(timers) =>
             timers'[Len(timers')].buildingState = buildingState']_vars

\* the third wave of a run on a building with a swapped material, scheduled with
\* that building
C15_Witness ==
    /\ phase = "wave_3"
    /\ buildingState # INITIAL_BUILDING_STATE
    /\ timers # <<>>
    /\ timers[Len(timers)].waveNumber = 3
    /\ timers[Len(timers)].buildingState = buildingState

\* C16: a wave resolution is invoked on a copy of the session health and leaves the
\* session health as it is; the copy held by a pending resolution is not changed
\* until it is applied; the session health changes only by a repair, by a reset, or
\* in the single step that applies the whole result of the oldest pending resolution
\* and writes the phase that follows its wave.
C16_ResolverWorksOnCopy ==
    [][/\ Len(timers') > Len(timers) =>
             /\ componentHealth' = componentHealth
             /\ timers'[Len(timers')].newHealth = componentHealth
             /\ \A k \in 1..Len(timers) : timers'[k] = timers[k]
       /\ (componentHealth' # componentHealth /\ ~isRepair
               /\ ~(handleReset \/ handleBackToMenu)) =>
             /\ timers # <<>>
             /\ timers' = Tail(timers)
             /\ LET t == Head(timers)
                IN  /\ componentHealth' =
                          resolveWave(t.disasterId, t.disasterPower, t.buildingState,
                                      t.newHealth, t.structuralBonus)
                    /\ phase' = IF t.waveNumber < 3 THEN repairPhase(t.waveNumber)
                                ELSE "results"
       /\ (Len(timers') = Len(timers) /\ timers # <<>>) => timers' = timers]_vars

\* wave 2 pending on a damaged building: the copy it holds is the session health
C16_Witness ==
    /\ phase = "wave_2"
    /\ timers # <<>>
    /\ Head(timers).waveNumber = 2
    /\ Head(timers).newHealth = componentHealth
    /\ componentHealth # INITIAL_HEALTH_STATE


\* disaster power of the lightning wave w minus the resistance of the rod material
rodExcess(w) ==
    Norm(DISASTER_CONFIG[LightningStorm] * waveFifths[w.waveNumber]
           - 5 * COMPONENT_CONFIG[LightningRod][w.buildingState[LightningRod][1]].resistance,
         5)

\* C17: after a LightningStorm wave whose power exceeds the resistance of the rod,
\* the rod has health max(0, h - 2 x (power - resistance)) whatever the structural
\* bonus is, and the roof has health max(0, h - 1.2 x (power - resistance) x
\* (1 - bonus)): the bonus reduces the damage of the roof and never that of the rod.
C17_RodAndRoofDamage ==
    (/\ lastWave.count > 0
     /\ lastWave.disasterId = LightningStorm
     /\ ~rodAbsorbs(lastWave)) =>
        /\ lastWave.output[LightningRod][1] =
              RMax(R(0), RSub(lastWave.input[LightningRod][1],
                              RMul(R(2), rodExcess(lastWave))))
        /\ lastWave.output[Roof][1] =
              RMax(R(0), RSub(lastWave.input[Roof][1],
                              RMul(RMul(<<6, 5>>, rodExcess(lastWave)),
                                   RSub(R(1), lastWave.bonus))))

\* an overwhelmed rod on a building with a positive bonus: the roof loses less than
\* 1.2 x the excess, the rod loses the full 2 x the excess and survives
C17_Witness ==
    /\ lastWave.count > 0
    /\ lastWave.disasterId = LightningStorm
    /\ ~rodAbsorbs(lastWave)
    /\ RLt(R(0), lastWave.bonus)
    /\ RLt(R(0), lastWave.output[LightningRod][1])
    /\ lastWave.output[LightningRod][1] =
          RSub(lastWave.input[LightningRod][1], RMul(R(2), rodExcess(lastWave)))
    /\ RLt(lastWave.output[Roof][1], lastWave.input[Roof][1])
    /\ RLt(RSub(lastWave.input[Roof][1], RMul(<<6, 5>>, rodExcess(lastWave))),
           lastWave.output[Roof][1])


\* the divisors of the claim: Beams 1.25, Walls 1.5, Glass 2, Pillars 1.2, Floor 1.8
statedDivisor(c) ==
    CASE c = Beams -> Norm(125, 100)
      [] c = Walls -> Norm(15, 10)
      [] c = Glass -> R(2)
      [] c = Pillars -> Norm(12, 10)
      [] c = Floor -> Norm(18, 10)

\* health of level k (1-based) of the per-floor component c after the lightning wave
\* w on n floors: offset n - k from the top, 1 / (1.5 x offset + 1) = 2 / (3 x offset + 2)
lightningExpected(w, c, k, n) ==
    LET effectivePower == RMax(R(0), rodExcess(w))
        offset == n - k
        loss == RDiv(RMul(RMul(effectivePower, RSub(R(1), w.bonus)),
                          Norm(2, 3 * offset + 2)),
                     statedDivisor(c))
    IN  IF offset < 3 THEN RMax(R(0), RSub(w.input[c][k], loss)) ELSE w.input[c][k]

\* C18: after a LightningStorm wave on n floors only the top min(3, n) levels of
\* Pillars, Beams, Walls, Glass and Floor can have lost health; the level at offset
\* i from the top has lost effective power x (1 - bonus) / (1.5 i + 1) divided by
\* the divisor of its component, clamped at 0; every level below the top three
\* keeps its input health; on fewer than three floors (none included) the result is
\* a health map of the same shape in which only the existing floors are damaged.
C18_LightningTopThree ==
    (lastWave.count > 0 /\ lastWave.disasterId = LightningStorm) =>
        /\ DOMAIN lastWave.output = DOMAIN lastWave.input
        /\ \A c \in floorComponents :
              LET n == Len(lastWave.input[c])
              IN  /\ Len(lastWave.output[c]) = n
                  /\ \A k \in 1..n :
                        /\ lastWave.output[c][k] = lightningExpected(lastWave, c, k, n)
                        /\ k <= n - 3 => lastWave.output[c][k] = lastWave.input[c][k]
                        /\ RLt(lastWave.output[c][k], lastWave.input[c][k]) =>
                              k > n - 3

\* lightning on at least four floors: the three top levels of the Walls lose
\* health, less at each level further down, and the fourth from the top, not
\* destroyed before, keeps its health
C18_Witness ==
    /\ lastWave.count > 0
    /\ lastWave.disasterId = LightningStorm
    /\ LET n == Len(lastWave.input[Walls])
       IN  /\ n >= 4
           /\ \A k \in n - 2..n : RLt(lastWave.output[Walls][k], lastWave.input[Walls][k])
           /\ RLt(R(0), lastWave.output[Walls][n])
           /\ RLt(RSub(lastWave.input[Walls][n - 1], lastWave.output[Walls][n - 1]),
                  RSub(lastWave.input[Walls][n], lastWave.output[Walls][n]))
           /\ RLt(R(0), lastWave.input[Walls][n - 3])
           /\ lastWave.output[Walls][n - 3] = lastWave.input[Walls][n - 3]



\* the defense components a wave of disasterId may damage
damageableDefenses(disasterId) ==
    IF disasterId = LightningStorm THEN {LightningRod} ELSE {}

\* C19: a wave never changes the health of a defense component other than the
\* lightning rod: Earthquake, Hurricane and Tsunami waves leave LightningRod,
\* WindDampers, TsunamiBarriers and SeismicDampers as they were, and a
\* LightningStorm wave leaves WindDampers, TsunamiBarriers and SeismicDampers as
\* they were.
C19_DefensesKeepHealth ==
    lastWave.count > 0 =>
        \A c \in {LightningRod, WindDampers, TsunamiBarriers, SeismicDampers}
                    \ damageableDefenses(lastWave.disasterId) :
            lastWave.output[c] = lastWave.input[c]

\* a hurricane stronger than every defense material damages the Walls and leaves
\* the four defense components, damaged before, at their input health
C19_Witness ==
    /\ lastWave.count > 0
    /\ lastWave.disasterId = Hurricane
    /\ Len(lastWave.input[Walls]) >= 1
    /\ RLt(lastWave.output[Walls][1], lastWave.input[Walls][1])
    /\ \A c \in {LightningRod, WindDampers, TsunamiBarriers, SeismicDampers} :
          /\ RLt(R(0), lastWave.input[c][1])
          /\ RLt(lastWave.input[c][1], R(100))
          /\ 5 * COMPONENT_CONFIG[c][lastWave.buildingState[c][1]].resistance
                < DISASTER_CONFIG[Hurricane] * waveFifths[lastWave.waveNumber]
          /\ lastWave.output[c] = lastWave.input[c]


\* 1.2 - i / (2 n) for the 0-based index i = k - 1 of a component with n levels
earthquakeFactor(k, n) == RSub(<<6, 5>>, Norm(k - 1, 2 * n))

\* C20: after an Earthquake wave, level index i (0-based) of a component with n
\* levels has lost the base damage max(0, effective power - resistance) scaled by
\* 1.2 - i / (2 n) and then by 1 - bonus; the factor lies in (0.7, 1.2] for every
\* valid index, so that no level gains health, and of two levels with the same
\* material and the same input health the lower one loses at least as much as the
\* higher one.
C20_EarthquakePositional ==
    /\ \A n \in 1..MaxWaveFloors : \A k \in 1..n :
          /\ RLt(<<7, 10>>, earthquakeFactor(k, n))
          /\ RLeq(earthquakeFactor(k, n), <<6, 5>>)
    /\ (lastWave.count > 0 /\ lastWave.disasterId = Earthquake) =>
          \A c \in structuralLevels :
             LET n == Len(lastWave.input[c])
             IN  /\ \A k \in 1..n :
                       /\ lastWave.output[c][k] =
                             scaledExpected(lastWave, Earthquake, SeismicDampers, c, k,
                                            earthquakeFactor(k, n))
                       /\ RLeq(lastWave.output[c][k], lastWave.input[c][k])
                 /\ \A k \in 1..n : \A j \in k + 1..n :
                       (/\ lastWave.buildingState[c][k] = lastWave.buildingState[c][j]
                        /\ lastWave.input[c][k] = lastWave.input[c][j]) =>
                           RLeq(lastWave.output[c][k], lastWave.output[c][j])

\* an earthquake on five floors of one material: the ground floor of the Beams
\* loses more than the top floor, the top floor loses health too, and neither is
\* destroyed
C20_Witness ==
    /\ lastWave.count > 0
    /\ lastWave.disasterId = Earthquake
    /\ Len(lastWave.input[Beams]) = 5
    /\ lastWave.buildingState[Beams][1] = lastWave.buildingState[Beams][5]
    /\ lastWave.input[Beams][1] = lastWave.input[Beams][5]
    /\ RLt(R(0), lastWave.output[Beams][1])
    /\ RLt(lastWave.output[Beams][1], lastWave.output[Beams][5])
    /\ RLt(lastWave.output[Beams][5], lastWave.input[Beams][5])


\* C21: a result is produced after wave 3 only: the result message is non-null if
\* and only if the phase is results; the phase results is entered only by the
\* resolution of a wave 3; and the message then carries the mean of the health that
\* this resolution produced, not of the health before the wave.
C21_ResultOnlyAfterWaveThree ==
    /\ []((resultMessage # NoResult) <=> (phase = "results"))
    /\ [][(phase' = "results" /\ phase # "results") =>
             /\ timers # <<>>
             /\ Head(timers).waveNumber = 3
             /\ componentHealth' =
                   resolveWave(Head(timers).disasterId, Head(timers).disasterPower,
                               Head(timers).buildingState, Head(timers).newHealth,
                               Head(timers).structuralBonus)
             /\ resultMessage' = resultMessageOf(componentHealth')]_vars


\* C22: a wave resolution scheduled before a reset or back-to-menu has no effect
\* after it: from phase idle with the default health, the phase stays idle and the
\* health stays at its defaults until a simulation is started, and a resolution
\* changes the phase or the health only in the wave phase and for the disaster it
\* was scheduled for.
C22_NoEffectAfterReset ==
    [][/\ (phase = "idle" /\ componentHealth = INITIAL_HEALTH_STATE) =>
             \/ phase' = "idle" /\ componentHealth' = componentHealth
             \/ /\ phase' = "wave_1"
                /\ activeDisaster' \in DisasterId
                /\ componentHealth' = componentHealth
       /\ (timers # <<>> /\ phase' # phase /\ phase' \in RepairPhases \cup {"results"}) =>
             /\ phase = wavePhase(Head(timers).waveNumber)
             /\ activeDisaster = Head(timers).disasterId]_vars


\* C23: in every reachable state the active disaster is non-null exactly when the
\* phase is not idle: every wave_n, repair_n and results state carries a disaster,
\* and idle carries none.
C23_DisasterIffNotIdle == (activeDisaster # NULL) <=> (phase # "idle")


\* C24: from the default configuration and with the actions that the control panel
\* enables, in every reachable state at most one of LightningRod, WindDampers,
\* TsunamiBarriers and SeismicDampers has a material other than weak, and a step
\* changes the material of a defense system only while no other one is non-weak.
C24_OneActiveDefense ==
    /\ [](Cardinality(activeDefenseSystem(buildingState)) <= 1)
    /\ [][buildingState' # buildingState =>
             \A c \in defenseComponents :
                 buildingState'[c] # buildingState[c] =>
                     activeDefenseSystem(buildingState) \subseteq {c}]_vars

\* the wind dampers were upgraded: their selector stays enabled and those of the
\* other three defense systems are disabled in the idle phase
C24_Witness ==
    /\ gameState = "playing"
    /\ phase = "idle"
    /\ buildingState[WindDampers][1] = "strong"
    /\ activeDefenseSystem(buildingState) = {WindDampers}
    /\ materialSelectorEnabled(WindDampers)
    /\ \A c \in defenseComponents \ {WindDampers} : ~materialSelectorEnabled(c)
    /\ materialSelectorEnabled(Pillars)


\* C25: repairing a level whose health is already 100 changes neither the health
\* nor the total cost, so that repairing a level twice in succession leaves the
\* health and the total cost that repairing it once leaves; and the total cost never
\* decreases during a repair phase.
C25_RepairIdempotent ==
    /\ [](\A c \in BuildingComponentId : \A i \in DOMAIN componentHealth[c] :
             componentHealth[c][i] = R(100) =>
                 repairOutcome(c, i, componentHealth, buildingState, totalCost) =
                     [totalCost |-> totalCost, componentHealth |-> componentHealth])
    /\ [][(phase \in RepairPhases /\ phase' \in RepairPhases) =>
             /\ RLeq(totalCost, totalCost')
             /\ (componentHealth' # componentHealth /\ timers' = timers) =>
                   \A c \in BuildingComponentId : \A i \in DOMAIN componentHealth[c] :
                       componentHealth'[c][i] # componentHealth[c][i] =>
                           LET once == repairOutcome(c, i, componentHealth, buildingState,
                                                     totalCost)
                               twice == repairOutcome(c, i, once.componentHealth,
                                                      buildingState, once.totalCost)
                           IN  /\ once = [totalCost |-> totalCost',
                                          componentHealth |-> componentHealth']
                               /\ twice = once]_vars

\* lightning has struck the rod and the roof in wave 1 and the roof was repaired:
\* its health is 100 again, the repair was charged, and the rod is still damaged
C25_Witness ==
    /\ phase = "repair_1"
    /\ activeDisaster = LightningStorm
    /\ RLt(componentHealth[LightningRod][1], R(100))
    /\ componentHealth[Roof][1] = R(100)
    /\ <<Roof, 1>> \notin damagedItems
    /\ <<LightningRod, 1>> \in damagedItems
    /\ RLt(R(0), costExcess(totalCost, buildingState))


\* the positional multiplier stated for the roof and for a ground floor
roofFactor(disasterId) == IF disasterId = Tsunami THEN <<3, 2>> ELSE <<6, 5>>

sameResistance(w, c, i, d, j) ==
    COMPONENT_CONFIG[c][w.buildingState[c][i]].resistance =
        COMPONENT_CONFIG[d][w.buildingState[d][j]].resistance

\* C26: in the uniform damage model the Roof is index 0 of a sequence of length 1:
\* its positional multiplier is 1.5 under a Tsunami and 1.2 under an Earthquake, as
\* for a ground-floor level, so that for the same material resistance and the same
\* input health the Roof loses exactly as much health as the ground floor and at
\* least as much as any higher floor.
C26_RoofAsGroundFloor ==
    (lastWave.count > 0 /\ lastWave.disasterId \in {Tsunami, Earthquake}) =>
        LET w == lastWave
            def == IF w.disasterId = Tsunami THEN TsunamiBarriers ELSE SeismicDampers
        IN  /\ Len(w.input[Roof]) = 1
            /\ w.output[Roof][1] =
                  scaledExpected(w, w.disasterId, def, Roof, 1, roofFactor(w.disasterId))
            /\ \A c \in floorComponents : \A j \in DOMAIN w.input[c] :
                  (sameResistance(w, Roof, 1, c, j) /\ w.input[Roof][1] = w.input[c][j]) =>
                      /\ RLeq(w.output[Roof][1], w.output[c][j])
                      /\ j = 1 => w.output[Roof][1] = w.output[c][j]

\* a tsunami on three intact floors of the material of the roof: the roof and the
\* ground floor of the Walls end at the same health, below that of the top floor
C26_Witness ==
    /\ lastWave.count > 0
    /\ lastWave.disasterId = Tsunami
    /\ Len(lastWave.input[Walls]) >= 3
    /\ \A j \in {1, Len(lastWave.input[Walls])} :
          /\ sameResistance(lastWave, Roof, 1, Walls, j)
          /\ lastWave.input[Roof][1] = lastWave.input[Walls][j]
    /\ RLt(R(0), lastWave.output[Roof][1])
    /\ lastWave.output[Roof][1] = lastWave.output[Walls][1]
    /\ RLt(lastWave.output[Roof][1], lastWave.output[Walls][Len(lastWave.input[Walls])])


\* C27: muted means silent: in every state reached by toggleMute, setSfxVolume,
\* setMusicVolume, playMusic and stopMusic calls, while the global mute flag is set
\* the sfx volume and the music volume are both 0 and no timeout of the music loop
\* is pending; and toggling mute twice restores the volumes in effect before muting.
C27_MutedMeansSilent ==
    /\ sound.isGloballyMuted =>
          /\ sound.sfxVolume = R(0)
          /\ sound.musicVolume = R(0)
          /\ sound.musicInterval = NULL
    /\ ~sound.isGloballyMuted =>
          LET twice == toggleMute(toggleMute(sound))
          IN  /\ ~twice.isGloballyMuted
              /\ twice.sfxVolume = sound.sfxVolume
              /\ twice.musicVolume = sound.musicVolume

====
